---- MODULE Spec2Model ----
(***************************************************************************)
(* The LS-8 emulator of cpu.py: the CPU object's fields, the run loop and  *)
(* the thirteen instruction handlers, as a state machine.  One cycle of    *)
(* run() is two steps: the fetch and dispatch of a handler (lines 147-152) *)
(* and the loop's own program-counter advance (lines 154-155).             *)
(***************************************************************************)
EXTENDS Integers, Sequences, FiniteSets, TLC

(* ---- opcodes, cpu.py lines 4-16 ---- *)
HLT == 1
LDI == 130
PRN == 71
MUL == 162
PUSH == 69
POP == 70
CALL == 80
RET == 17
ADD == 160
CMP == 167
JMP == 84
JEQ == 85
JNE == 86

(* ---- sizes and initial values of CPU.__init__ ---- *)
RamSize == 256
NumRegs == 8
SPReg == 7
StackInit == 244

(* ---- bounds of the model ---- *)
\* registers are Python integers; a step whose result leaves -MaxVal..MaxVal is cut off
MaxVal == 70000
\* the number of lines kept of what the program prints
MaxOut == 6
\* the number of executed instructions remembered in hist
HistLen == 4

VARIABLES
    ram,     \* self.ram: 256 cells
    reg,     \* self.reg: 8 registers, reg[7] is the stack pointer
    pc,      \* self.pc
    ir,      \* self.ir
    mdr,     \* self.mdr
    fl,      \* self.fl
    halted,  \* self.halted
    phase,   \* position of run(): "fetch", "advance", "done", "exit", "crash"
    out,     \* what has been printed, in order
    hist,    \* history: the last HistLen dispatched instructions
    call     \* history: the most recent CALL whose stack cell is still intact

vars == <<ram, reg, pc, ir, mdr, fl, halted, phase, out, hist, call>>

(* ---- the branch table, cpu.py lines 38-51 ---- *)
branchtable == {HLT, LDI, PRN, MUL, PUSH, POP, CALL, RET, ADD, CMP, JMP, JEQ, JNE}

(* ---- properties and memory access, cpu.py lines 58-97 ---- *)
InRange(mar) == mar >= 0 /\ mar < RamSize

\* ram_read: the cell, or the sentinel -1 for an address outside the array
ram_read(mem, mar) == IF InRange(mar) THEN mem[mar] ELSE -1

\* the line ram_read and ram_write print for an address outside the array
MemError(mar) ==
    IF InRange(mar) THEN <<>> ELSE << [kind |-> "mem_error", args |-> <<mar>>] >>

\* ram_write without the mask of line 94
ram_write_Unmasked(mem, mar, mdr_) ==
    IF InRange(mar) THEN [mem EXCEPT ![mar] = mdr_] ELSE mem

\* ram_write: the value masked to 8 bits; nothing is written outside the array
ram_write(mem, mar, mdr_) ==
    IF InRange(mar) THEN [mem EXCEPT ![mar] = mdr_ % 256] ELSE mem

\* the sp setter: reg[7] = a & 0xFF
sp_set(regs, a) == [regs EXCEPT ![SPReg] = a % 256]

\* op_a and op_b: the cells after the opcode
op_a(mem, p) == ram_read(mem, p + 1)
op_b(mem, p) == ram_read(mem, p + 2)

\* the operand count alone, without the opcode byte
instruction_size_OperandsOnly(i) == (i \div 64) % 4

\* instruction_size: ((ir >> 6) & 0b11) + 1
instruction_size(i) == ((i \div 64) % 4) + 1

\* instruction_sets_pc reading bit 5 in place of bit 4
instruction_sets_pc_Bit5(i) == ((i \div 32) % 2) = 1

\* instruction_sets_pc: ((ir >> 4) & 0b0001) == 1
instruction_sets_pc(i) == ((i \div 16) % 2) = 1

\* self.reg[i] of a Python list of 8: -8..-1 count from the end, anything
\* else raises IndexError
RegOK(i) == i >= -NumRegs /\ i < NumRegs
RegIdx(i) == IF i < 0 THEN i + NumRegs ELSE i

\* process_CMP with the flags of lines 203 and 205 exchanged
CmpFlag_Swapped(x, y) == IF x < y THEN 2 ELSE IF x > y THEN 4 ELSE 1

\* the flag process_CMP stores for the two register values
CmpFlag(x, y) == IF x < y THEN 4 ELSE IF x > y THEN 2 ELSE 1

Abs(x) == IF x < 0 THEN -x ELSE x

(* ---- memory images the loader can leave: bytes from address 0 on ---- *)
Load(bytes) ==
    [a \in 0..(RamSize - 1) |-> IF a < Len(bytes) THEN bytes[a + 1] ELSE 0]

Place(mem, base, bytes) ==
    [a \in 0..(RamSize - 1) |->
        IF a >= base /\ a < base + Len(bytes) THEN bytes[a - base + 1] ELSE mem[a]]

Rs == {0, 1, 7}
RsBad == Rs \cup {8}
Vs == {0, 1, 8, 9, 200, 255}

Unary == {PRN, PUSH, POP, CALL, JMP, JEQ, JNE}
Binary == {MUL, ADD, CMP}

Instrs ==
    {<<HLT>>, <<RET>>, <<0>>}
    \cup {<<LDI, r, v>> : r \in Rs, v \in Vs}
    \cup {<<o, r>> : o \in Unary, r \in RsBad}
    \cup {<<o, r, s>> : o \in Binary, r \in Rs, s \in Rs}
    \cup {<<ADD, 8, 0>>, <<MUL, 0, 8>>, <<CMP, 0, 8>>, <<LDI, 8, 1>>}

\* one or two instructions at address 0
ShortPrograms ==
    {Load(i) : i \in Instrs} \cup {Load(i \o j) : i \in Instrs, j \in Instrs}

\* two loads, one instruction, a print and a halt
LoadedPrograms ==
    {Load(<<LDI, 0, x>> \o <<LDI, 1, y>> \o i \o <<PRN, 0>> \o <<HLT>>) :
        x \in Vs, y \in Vs, i \in Instrs}

\* a jump to the end of memory and one instruction there
Bases == 250..255
HighPrograms ==
    {Place(Load(<<LDI, 0, b>> \o <<JMP, 0>>), b, i) : b \in Bases, i \in Instrs}

\* one instruction, then a PUSH and a POP next to each other, then a halt;
\* the stack pointers of StackTops put the stack on the program itself
StackTops == 4..8
StackPrograms ==
    {Load(i \o <<PUSH, r>> \o <<POP, s>> \o <<HLT>>) :
        i \in Instrs \cup {<<LDI, SPReg, t>> : t \in StackTops}, r \in Rs, s \in Rs}

\* a jump to a CALL at address p of the subroutine that follows the jump
CallSites == 16..255
CallHeader(p) == <<LDI, 0, p>> \o <<LDI, 1, Len(<<LDI, 0, p, LDI, 1, 0, JMP, 0>>)>> \o <<JMP, 0>>
Subroutines ==
    {<<RET>>,
     <<PUSH, 0>> \o <<POP, 1>> \o <<RET>>,
     <<PUSH, 1>> \o <<RET>>,
     <<LDI, 2, 14>> \o <<CALL, 2>> \o <<RET>> \o <<RET>>}
CallPrograms ==
    {Place(Load(CallHeader(p) \o sub), p, <<CALL, 1>> \o <<HLT>>) :
        p \in CallSites, sub \in Subroutines}

\* two loads, a setting of the stack pointer, two PUSHes, two POPs and a halt
StackSetups ==
    {<<>>, <<ADD, SPReg, SPReg>>, <<ADD, 0, 0>>}
    \cup {<<LDI, SPReg, t>> : t \in {1, 2, 12, 20}}
LifoPrograms ==
    {Load(<<LDI, 0, 200>> \o <<LDI, 1, 9>> \o s
          \o <<PUSH, a>> \o <<PUSH, b>> \o <<POP, c>> \o <<POP, d>> \o <<HLT>>) :
        s \in StackSetups, a \in Rs, b \in Rs, c \in Rs, d \in Rs}

\* one instruction repeated over the whole memory, and the same with a halt
\* in the last two cells
Fill(bytes) == [a \in 0..(RamSize - 1) |-> bytes[(a % Len(bytes)) + 1]]
LongPrograms ==
    {Fill(i) : i \in {<<POP, 0>>, <<PUSH, 0>>, <<CMP, 0, 1>>, <<LDI, 0, 1>>, <<ADD, 0, 1>>}}
    \cup {Place(Fill(<<POP, 0>>), RamSize - 2, <<HLT>>)}

Images ==
    ShortPrograms \cup LoadedPrograms \cup HighPrograms \cup StackPrograms
    \cup CallPrograms \cup LifoPrograms \cup LongPrograms

(* ---- history ---- *)
NoCall == [p |-> -1, sp |-> -1]
\* what the history holds for an operand the handler did not read: a value
\* ram_read never returns
NoOperand == RamSize

Remember(h, e) ==
    IF Len(h) < HistLen THEN Append(h, e) ELSE Append(Tail(h), e)

\* the entry of the instruction being dispatched: the operands it read, the
\* registers before it, whether the handler returned, the CALL a RET matches
ControlFlow == {CALL, RET, JMP, JEQ, JNE}
\* the number of instructions dispatched so far, this one included, while
\* none of them was a CALL, RET, JMP, JEQ or JNE; -1 from the first of those on
RunLength ==
    IF ram_read(ram, pc) \in ControlFlow THEN -1
    ELSE IF Len(hist) = 0 THEN 1
    ELSE IF hist[Len(hist)].run < 0 THEN -1
    ELSE hist[Len(hist)].run + 1
Entry(a, b, ok, cp) ==
    [op |-> ram_read(ram, pc), at |-> pc, a |-> a, b |-> b, reg |-> reg,
     mdr |-> mdr, ok |-> ok, callp |-> cp, run |-> RunLength]

Log(a, b, ok) == hist' = Remember(hist, Entry(a, b, ok, -1))

(* ---- CPU.__init__ and load ---- *)
Init ==
    /\ ram \in Images
    /\ reg = [i \in 0..(NumRegs - 1) |-> IF i = SPReg THEN StackInit ELSE 0]
    /\ pc = 0
    /\ ir = 0
    /\ mdr = 0
    /\ fl = 0
    /\ halted = FALSE
    /\ phase = "fetch"
    /\ out = <<>>
    /\ hist = <<>>
    /\ call = NoCall

(* ---- run, lines 146-149: fetch and look up ---- *)
Dispatch(op) ==
    /\ phase = "fetch"
    /\ ram_read(ram, pc) = op
    /\ ir' = op

Emit(msgs) ==
    /\ Len(out) + Len(msgs) <= MaxOut
    /\ out' = out \o msgs

Returns(ok) == phase' = IF ok THEN "advance" ELSE "crash"

\* the no-handler branch ending the run by the halted flag
Unimplemented_Halts ==
    /\ phase = "fetch"
    /\ ram_read(ram, pc) \notin branchtable
    /\ ir' = ram_read(ram, pc)
    /\ Emit(MemError(pc) \o << [kind |-> "no_instruction", args |-> <<ram_read(ram, pc)>>] >>)
    /\ phase' = "exit"
    /\ halted' = TRUE
    /\ UNCHANGED <<ram, reg, pc, mdr, fl, hist, call>>

(* ---- run, lines 150-152: no handler ---- *)
Unimplemented ==
    /\ phase = "fetch"
    /\ ram_read(ram, pc) \notin branchtable
    /\ ir' = ram_read(ram, pc)
    /\ Emit(MemError(pc) \o << [kind |-> "no_instruction", args |-> <<ram_read(ram, pc)>>] >>)
    /\ phase' = "exit"
    /\ UNCHANGED <<ram, reg, pc, mdr, fl, halted, hist, call>>

\* the loop of run without the test of halted: while True
Advance_NoHaltTest ==
    /\ phase = "advance"
    /\ pc' = IF instruction_sets_pc(ir) THEN pc ELSE pc + instruction_size(ir)
    /\ phase' = "fetch"
    /\ UNCHANGED <<ram, reg, ir, mdr, fl, halted, out, hist, call>>

(* ---- run, lines 154-155 and the loop test of line 146 ---- *)
Advance ==
    /\ phase = "advance"
    /\ pc' = IF instruction_sets_pc(ir) THEN pc ELSE pc + instruction_size(ir)
    /\ phase' = IF halted THEN "done" ELSE "fetch"
    /\ UNCHANGED <<ram, reg, ir, mdr, fl, halted, out, hist, call>>

(* ---- the handlers, cpu.py lines 167-222 ---- *)
\* process_HLT leaving the halted flag as it is
process_HLT_NoHalt ==
    /\ Dispatch(HLT)
    /\ Emit(<<>>)
    /\ Returns(TRUE)
    /\ Log(NoOperand, NoOperand, TRUE)
    /\ UNCHANGED <<ram, reg, pc, mdr, fl, halted, call>>

process_HLT ==
    /\ Dispatch(HLT)
    /\ halted' = TRUE
    /\ Emit(<<>>)
    /\ Returns(TRUE)
    /\ Log(NoOperand, NoOperand, TRUE)
    /\ UNCHANGED <<ram, reg, pc, mdr, fl, call>>

\* self.reg[self.op_a] = self.op_b: the right side is read first
process_LDI ==
    LET b == op_b(ram, pc)
        a == op_a(ram, pc)
    IN  /\ Dispatch(LDI)
        /\ Emit(MemError(pc + 2) \o MemError(pc + 1))
        /\ reg' = IF RegOK(a) THEN [reg EXCEPT ![RegIdx(a)] = b] ELSE reg
        /\ Returns(RegOK(a))
        /\ Log(a, b, RegOK(a))
        /\ UNCHANGED <<ram, pc, mdr, fl, halted, call>>

process_PRN ==
    LET a == op_a(ram, pc)
    IN  /\ Dispatch(PRN)
        /\ Emit(MemError(pc + 1) \o
                (IF RegOK(a) THEN << [kind |-> "prn", args |-> <<reg[RegIdx(a)]>>] >>
                 ELSE <<>>))
        /\ Returns(RegOK(a))
        /\ Log(a, NoOperand, RegOK(a))
        /\ UNCHANGED <<ram, reg, pc, mdr, fl, halted, call>>

\* the model's cut-off of register growth, tested without computing x * y
FitsProduct(x, y) == IF x = 0 THEN TRUE ELSE Abs(y) <= MaxVal \div Abs(x)
FitsSum(x, y) == Abs(x + y) <= MaxVal

\* self.reg[self.op_a] *= self.reg[self.op_b]: the left side is read first,
\* the right side only when the left index was good; nothing is masked
process_MUL ==
    LET a == op_a(ram, pc)
        b == IF RegOK(a) THEN op_b(ram, pc) ELSE NoOperand
        ok == RegOK(a) /\ RegOK(b)
    IN  /\ Dispatch(MUL)
        /\ IF ok THEN FitsProduct(reg[RegIdx(a)], reg[RegIdx(b)]) ELSE TRUE
        /\ Emit(MemError(pc + 1) \o (IF RegOK(a) THEN MemError(pc + 2) ELSE <<>>))
        /\ reg' = IF ok THEN [reg EXCEPT ![RegIdx(a)] = reg[RegIdx(a)] * reg[RegIdx(b)]]
                  ELSE reg
        /\ Returns(ok)
        /\ Log(a, b, ok)
        /\ UNCHANGED <<ram, pc, mdr, fl, halted, call>>

\* self.reg[self.op_a] += self.reg[self.op_b], read in the same order
\* an ADD that reports its result in the flags, as an ALU with a zero flag does
process_ADD_SetsFlags ==
    LET a == op_a(ram, pc)
        b == IF RegOK(a) THEN op_b(ram, pc) ELSE NoOperand
        ok == RegOK(a) /\ RegOK(b)
    IN  /\ Dispatch(ADD)
        /\ IF ok THEN FitsSum(reg[RegIdx(a)], reg[RegIdx(b)]) ELSE TRUE
        /\ Emit(MemError(pc + 1) \o (IF RegOK(a) THEN MemError(pc + 2) ELSE <<>>))
        /\ reg' = IF ok THEN [reg EXCEPT ![RegIdx(a)] = reg[RegIdx(a)] + reg[RegIdx(b)]]
                  ELSE reg
        /\ fl' = IF ok THEN CmpFlag(reg[RegIdx(a)] + reg[RegIdx(b)], 0) ELSE fl
        /\ Returns(ok)
        /\ Log(a, b, ok)
        /\ UNCHANGED <<ram, pc, mdr, halted, call>>

process_ADD ==
    LET a == op_a(ram, pc)
        b == IF RegOK(a) THEN op_b(ram, pc) ELSE NoOperand
        ok == RegOK(a) /\ RegOK(b)
    IN  /\ Dispatch(ADD)
        /\ IF ok THEN FitsSum(reg[RegIdx(a)], reg[RegIdx(b)]) ELSE TRUE
        /\ Emit(MemError(pc + 1) \o (IF RegOK(a) THEN MemError(pc + 2) ELSE <<>>))
        /\ reg' = IF ok THEN [reg EXCEPT ![RegIdx(a)] = reg[RegIdx(a)] + reg[RegIdx(b)]]
                  ELSE reg
        /\ Returns(ok)
        /\ Log(a, b, ok)
        /\ UNCHANGED <<ram, pc, mdr, fl, halted, call>>

\* sp -= 1; mdr = reg[op_a]; ram_write(sp, mdr)
\* a PUSH that stores at the old top of the stack and decrements afterwards
process_PUSH_WriteThenDecrement ==
    LET a == op_a(ram, pc)
        ok == RegOK(a)
        v == IF ok THEN reg[RegIdx(a)] ELSE mdr
    IN  /\ Dispatch(PUSH)
        /\ reg' = IF ok THEN sp_set(reg, reg[SPReg] - 1) ELSE reg
        /\ mdr' = v
        /\ ram' = IF ok /\ InRange(reg[SPReg]) THEN ram_write(ram, reg[SPReg], v) ELSE ram
        /\ Emit(MemError(pc + 1) \o (IF ok THEN MemError(reg[SPReg]) ELSE <<>>))
        /\ Returns(ok)
        /\ Log(a, NoOperand, ok)
        /\ call' = IF ok /\ call.sp = reg[SPReg] THEN NoCall ELSE call
        /\ UNCHANGED <<pc, fl, halted>>

process_PUSH ==
    LET regs1 == sp_set(reg, reg[SPReg] - 1)
        a == op_a(ram, pc)
        ok == RegOK(a)
        v == IF ok THEN regs1[RegIdx(a)] ELSE mdr
    IN  /\ Dispatch(PUSH)
        /\ reg' = regs1
        /\ mdr' = v
        /\ ram' = IF ok THEN ram_write(ram, regs1[SPReg], v) ELSE ram
        /\ Emit(MemError(pc + 1) \o (IF ok THEN MemError(regs1[SPReg]) ELSE <<>>))
        /\ Returns(ok)
        /\ Log(a, NoOperand, ok)
        /\ call' = IF ok /\ call.sp = regs1[SPReg] THEN NoCall ELSE call
        /\ UNCHANGED <<pc, fl, halted>>

\* mdr = ram_read(sp); reg[op_a] = mdr; sp += 1
process_POP ==
    LET v == ram_read(ram, reg[SPReg])
        a == op_a(ram, pc)
        ok == RegOK(a)
        regs1 == [reg EXCEPT ![RegIdx(a)] = v]
    IN  /\ Dispatch(POP)
        /\ mdr' = v
        /\ reg' = IF ok THEN sp_set(regs1, regs1[SPReg] + 1) ELSE reg
        /\ Emit(MemError(reg[SPReg]) \o MemError(pc + 1))
        /\ Returns(ok)
        /\ Log(a, NoOperand, ok)
        /\ UNCHANGED <<ram, pc, fl, halted, call>>

\* sp -= 1; ram_write(sp, pc + instruction_size); pc = reg[op_a]: the operand
\* is read after the write
process_CALL ==
    LET regs1 == sp_set(reg, reg[SPReg] - 1)
        ram1 == ram_write(ram, regs1[SPReg], pc + instruction_size(CALL))
        a == op_a(ram1, pc)
        ok == RegOK(a)
    IN  /\ Dispatch(CALL)
        /\ reg' = regs1
        /\ ram' = ram1
        /\ pc' = IF ok THEN regs1[RegIdx(a)] ELSE pc
        /\ Emit(MemError(regs1[SPReg]) \o MemError(pc + 1))
        /\ Returns(ok)
        /\ Log(a, NoOperand, ok)
        /\ call' = IF ok THEN [p |-> pc, sp |-> regs1[SPReg]] ELSE NoCall
        /\ UNCHANGED <<mdr, fl, halted>>

\* pc = ram_read(sp); sp += 1
process_RET ==
    LET matched == call.p >= 0 /\ call.sp = reg[SPReg]
    IN  /\ Dispatch(RET)
        /\ pc' = ram_read(ram, reg[SPReg])
        /\ reg' = sp_set(reg, reg[SPReg] + 1)
        /\ Emit(MemError(reg[SPReg]))
        /\ Returns(TRUE)
        /\ hist' = Remember(hist, Entry(NoOperand, NoOperand, TRUE,
                                        IF matched THEN call.p ELSE -1))
        /\ call' = IF matched THEN NoCall ELSE call
        /\ UNCHANGED <<ram, mdr, fl, halted>>

\* the comparison of line 202 reads both operands; that of line 204 reads
\* them again when the first was false
process_CMP ==
    LET a == op_a(ram, pc)
        b == IF RegOK(a) THEN op_b(ram, pc) ELSE NoOperand
        ok == RegOK(a) /\ RegOK(b)
        x == IF ok THEN reg[RegIdx(a)] ELSE 0
        y == IF ok THEN reg[RegIdx(b)] ELSE 0
        reads == MemError(pc + 1) \o (IF RegOK(a) THEN MemError(pc + 2) ELSE <<>>)
    IN  /\ Dispatch(CMP)
        /\ fl' = IF ok THEN CmpFlag(x, y) ELSE fl
        /\ Emit(reads \o (IF ok /\ ~(x < y) THEN reads ELSE <<>>))
        /\ Returns(ok)
        /\ Log(a, b, ok)
        /\ UNCHANGED <<ram, reg, pc, mdr, halted, call>>

\* pc = reg[op_a], taken when the condition holds; else pc += instruction_size
Branch(opcode, taken) ==
    LET a == IF taken THEN op_a(ram, pc) ELSE NoOperand
        ok == IF taken THEN RegOK(a) ELSE TRUE
    IN  /\ Dispatch(opcode)
        /\ pc' = IF ~taken THEN pc + instruction_size(opcode)
                 ELSE IF ok THEN reg[RegIdx(a)] ELSE pc
        /\ Emit(IF taken THEN MemError(pc + 1) ELSE <<>>)
        /\ Returns(ok)
        /\ Log(a, NoOperand, ok)
        /\ UNCHANGED <<ram, reg, mdr, fl, halted, call>>

process_JMP == Branch(JMP, TRUE)

\* process_JEQ testing the flags for truth, not for the equal flag
process_JEQ_AnyFlag == Branch(JEQ, fl # 0)

process_JEQ == Branch(JEQ, fl = 1)

process_JNE == Branch(JNE, fl # 1)

Next ==
    \/ process_HLT
    \/ process_LDI
    \/ process_PRN
    \/ process_MUL
    \/ process_PUSH
    \/ process_POP
    \/ process_CALL
    \/ process_RET
    \/ process_ADD
    \/ process_CMP
    \/ process_JMP
    \/ process_JEQ
    \/ process_JNE
    \/ Unimplemented
    \/ Advance

Spec == Init /\ [][Next]_vars

\* run is one thread that executes cycle after cycle until it stops
FairSpec == Spec /\ WF_vars(Next)

(* ---- what the history says of the last dispatched instructions ---- *)
Last == hist[Len(hist)]
Prev == hist[Len(hist) - 1]

\* the handler of opcode op has just returned
Returned(op) == phase = "advance" /\ Len(hist) >= 1 /\ Last.op = op /\ Last.ok

\* a handler is dispatched in this step and returns
Handled(op) == phase = "fetch" /\ ram_read(ram, pc) = op /\ phase' = "advance"

RegIndices == 0..(NumRegs - 1)
Byte == 0..255

(* C1: a step of run in which a memory access leaves 0..255 stops run at   *)
(* once: nothing is done with a value standing in for the missing cell, so  *)
(* memory, registers, PC and flags stay as they were.  Stated for steps     *)
(* taken with 8-bit registers, where the access is a fetch or an operand    *)
(* read.                                                                    *)
FaultsNow ==
    \E i \in (Len(out) + 1)..Len(out') : out'[i].kind = "mem_error"
C1_MemoryFaultStops ==
    [][(FaultsNow /\ \A r \in RegIndices : reg[r] \in Byte) =>
         /\ phase' \in {"exit", "crash"}
         /\ UNCHANGED <<ram, reg, pc, fl>>]_vars

(* C2: a fetched byte outside the branch table stops run in that cycle with *)
(* memory, registers, flags and PC unchanged, and the report carries the    *)
(* opcode byte and the PC.                                                  *)
C2_UnimplementedReport ==
    [][(phase = "fetch" /\ ram_read(ram, pc) \notin branchtable) =>
         /\ phase' = "exit"
         /\ UNCHANGED <<ram, reg, fl, pc>>
         /\ Len(out') >= 1
         /\ out'[Len(out')].args = <<ram_read(ram, pc), pc>>]_vars

(* C3: after ADD ra,rb with ra, rb in 0..7 holding 8-bit values a, b,       *)
(* Register[ra] is (a + b) mod 256.                                         *)
C3_AddWraps ==
    [][(/\ Handled(ADD)
        /\ op_a(ram, pc) \in RegIndices /\ op_b(ram, pc) \in RegIndices
        /\ reg[op_a(ram, pc)] \in Byte /\ reg[op_b(ram, pc)] \in Byte) =>
         reg'[op_a(ram, pc)] = (reg[op_a(ram, pc)] + reg[op_b(ram, pc)]) % 256]_vars

(* C4: after MUL ra,rb with ra, rb in 0..7 holding 8-bit values a, b,       *)
(* Register[ra] is (a * b) mod 256.                                         *)
C4_MulWraps ==
    [][(/\ Handled(MUL)
        /\ op_a(ram, pc) \in RegIndices /\ op_b(ram, pc) \in RegIndices
        /\ reg[op_a(ram, pc)] \in Byte /\ reg[op_b(ram, pc)] \in Byte) =>
         reg'[op_a(ram, pc)] = (reg[op_a(ram, pc)] * reg[op_b(ram, pc)]) % 256]_vars

(* C5: PUSH r immediately followed by POP r, r in 0..7, leaves Register[r]  *)
(* and SP as they were before the PUSH, whatever Register[r] held.          *)
PushThenPop ==
    /\ Returned(POP) /\ Len(hist) >= 2
    /\ Prev.op = PUSH /\ Prev.ok /\ Last.at = Prev.at + 2
    /\ Prev.a \in RegIndices /\ Last.a = Prev.a
C5_PushPopRoundTrip ==
    PushThenPop => reg[Prev.a] = Prev.reg[Prev.a] /\ reg[SPReg] = Prev.reg[SPReg]

(* C6: the RET matching a CALL executed at address p sets PC to p + 2.      *)
MatchedRet == Returned(RET) /\ Last.callp >= 0
C6_RetToCallPlus2 == MatchedRet => pc = Last.callp + 2

(* C6, amended: the RET matching a CALL executed at address p sets PC to    *)
(* (p + 2) mod 256, the return address as the 8-bit stack cell holds it:    *)
(* p + 2 for p up to 253, and 0 for p = 254.                                *)
C6_RetToStoredAddress == MatchedRet => pc = (Last.callp + 2) % 256
C6_Witness == MatchedRet /\ Last.callp = 254 /\ pc = 0

(* C7: after CMP ra,rb exactly one of the flags equal (1), greater (2),     *)
(* less (4) is set, the one matching Register[ra] against Register[rb], and *)
(* every other bit of Flags is clear.                                       *)
CmpDone == Returned(CMP) /\ Last.a \in RegIndices /\ Last.b \in RegIndices
C7_CmpSetsOneFlag ==
    CmpDone =>
        /\ fl \in {1, 2, 4}
        /\ (fl = 4) = (Last.reg[Last.a] < Last.reg[Last.b])
        /\ (fl = 2) = (Last.reg[Last.a] > Last.reg[Last.b])
        /\ (fl = 1) = (Last.reg[Last.a] = Last.reg[Last.b])
C7_Witness == CmpDone /\ fl = 2 /\ Last.reg[Last.a] = 255 /\ Last.reg[Last.b] = 200

(* C8: JEQ r sets PC to Register[r] when the equal flag is set and to       *)
(* PC + 2 otherwise; JNE r sets PC to Register[r] when the equal flag is    *)
(* not set and to PC + 2 otherwise; the loop then adds no advance.          *)
EqualFlag(f) == f % 2 = 1
BranchTarget == reg[RegIdx(op_a(ram, pc))]
C8_ConditionalBranches ==
    [][/\ Handled(JEQ) => pc' = IF EqualFlag(fl) THEN BranchTarget ELSE pc + 2
       /\ Handled(JNE) => pc' = IF EqualFlag(fl) THEN pc + 2 ELSE BranchTarget
       /\ (phase = "advance" /\ ir \in {JEQ, JNE}) => pc' = pc]_vars
C8_Witness ==
    /\ phase = "fetch" /\ Len(hist) >= 2
    /\ Prev.op = CMP /\ Last.op = JEQ /\ Last.ok
    /\ fl = 1 /\ pc = Last.reg[Last.a] /\ pc # Last.at + 2

(* C9: PC is updated once per executed instruction: for CALL, RET, JMP,     *)
(* JEQ, JNE the handler sets it and the loop does not advance; for HLT,     *)
(* LDI, PRN, MUL, ADD, PUSH, POP, CMP the handler leaves it and the loop    *)
(* advances it by ((opcode >> 6) & 3) + 1.                                  *)
SetsPC == {CALL, RET, JMP, JEQ, JNE}
LeavesPC == {HLT, LDI, PRN, MUL, ADD, PUSH, POP, CMP}
C9_PCUpdatedOnce ==
    [][/\ \A op \in LeavesPC : Handled(op) => pc' = pc
       /\ (phase = "advance" /\ ir \in SetsPC) => pc' = pc
       /\ (phase = "advance" /\ ir \in LeavesPC) => pc' = pc + ((ir \div 64) % 4) + 1]_vars
C9_Witness ==
    /\ phase = "fetch" /\ Len(hist) >= 2
    /\ Prev.op = JMP /\ Prev.ok /\ Last.op = PUSH /\ Last.ok
    /\ Last.at = Prev.reg[Prev.a] /\ pc = Last.at + 2

(* C10: each PRN emits exactly one value, the current Register[op_a], and   *)
(* that value is an unsigned 8-bit integer.                                 *)
C10_PrnEmitsByte ==
    [][(Handled(PRN) /\ op_a(ram, pc) \in RegIndices) =>
         /\ reg[RegIdx(op_a(ram, pc))] \in Byte
         /\ out' = Append(out, [kind |-> "prn", args |-> <<reg[RegIdx(op_a(ram, pc))]>>])]_vars

(* C11: whenever run has stopped, Halted is true exactly when the stop was  *)
(* the loop ending after a HLT; a stop on an unimplemented opcode (a fetch  *)
(* outside memory included) or on a bad register index leaves it false.     *)
Stopped == phase \in {"done", "exit", "crash"}
StoppedByHLT == phase = "done" /\ Len(hist) >= 1 /\ Last.op = HLT /\ ir = HLT
C11_HaltedIffHLT ==
    /\ Stopped => (halted <=> StoppedByHLT)
    /\ phase \in {"exit", "crash"} => ~halted
C11_Witness == StoppedByHLT /\ halted /\ Len(out) = 0

(* C12: from the initial state with LDI R0,8; LDI R1,9; MUL R0,R1; PRN R0;  *)
(* HLT loaded from address 0 on (twelve bytes), run eventually reaches      *)
(* Halted with no fault, and the output is the single value 72.             *)
MulProgram ==
    Load(<<LDI, 0, 8>> \o <<LDI, 1, 9>> \o <<MUL, 0, 1>> \o <<PRN, 0>> \o <<HLT>>)
C12_MulProgramPrints72 ==
    (ram = MulProgram) =>
        /\ [](phase \notin {"exit", "crash"})
        /\ <>[](/\ phase = "done" /\ halted
                /\ out = << [kind |-> "prn", args |-> <<72>>] >>)
C12_Witness ==
    /\ ram = MulProgram /\ phase = "done" /\ halted /\ pc = 12 /\ reg[0] = 72
    /\ out = << [kind |-> "prn", args |-> <<72>>] >>

(* C13: Halted is terminal: once HLT has set it, it stays true, the loop    *)
(* ends with the cycle of the HLT, nothing more is fetched or dispatched,   *)
(* and memory, registers and flags stay as HLT left them.                   *)
C13_HaltedIsTerminal ==
    [][halted =>
         /\ halted'
         /\ phase = "advance" /\ ir = HLT /\ phase' = "done"
         /\ UNCHANGED <<ram, reg, fl, ir, mdr, out, hist>>]_vars
C13_Witness ==
    /\ phase = "done" /\ halted /\ Len(hist) >= 2
    /\ Last.op = HLT /\ Prev.op = PRN /\ pc = Last.at + 1
    /\ Len(out) = 1 /\ reg = Last.reg

(* C14: every memory cell holds a value in 0..255 at all times: the image   *)
(* is made of bytes and every store masks the value to eight bits.          *)
C14_CellsAreBytes == \A a \in 0..(RamSize - 1) : ram[a] \in Byte
C14_Witness ==
    /\ Returned(CALL) /\ Last.at = RamSize - 2
    /\ reg[SPReg] = StackInit - 1 /\ ram[reg[SPReg]] = 0

(* C15: register 7, the stack pointer, is in 0..255 in every state, whichever *)
(* instruction wrote it, and the address of every stack access is in memory.  *)
C15_SPIsByte ==
    /\ reg[SPReg] \in Byte
    /\ Returned(POP) => InRange(Last.reg[SPReg])

(* C16: when the handler about to run uses an operand outside 0..7 as a     *)
(* register index, the step stops execution and neither Flags, PC nor any   *)
(* general register changes: the index never stands for another register.   *)
IndexesA(op) ==
    \/ op \in {LDI, PRN, MUL, ADD, PUSH, POP, CALL, CMP, JMP}
    \/ op = JEQ /\ EqualFlag(fl)
    \/ op = JNE /\ ~EqualFlag(fl)
IndexesB(op) == op \in {MUL, ADD, CMP}
UsesBadIndex ==
    /\ phase = "fetch"
    /\ \/ IndexesA(ram_read(ram, pc)) /\ op_a(ram, pc) \notin RegIndices
       \/ IndexesB(ram_read(ram, pc)) /\ op_b(ram, pc) \notin RegIndices
C16_BadIndexFaults ==
    [][UsesBadIndex =>
         /\ phase' = "crash"
         /\ UNCHANGED <<fl, pc>>
         /\ \A r \in RegIndices \ {SPReg} : reg'[r] = reg[r]]_vars

(* C17: Flags is changed only by CMP: every step that is not the handler of *)
(* a CMP, the advance of PC included, leaves it as it was, and it is 0      *)
(* until the first CMP.                                                      *)
NoCmpYet == Len(hist) < HistLen /\ \A i \in 1..Len(hist) : hist[i].op # CMP
C17_OnlyCmpChangesFlags ==
    /\ [](NoCmpYet => fl = 0)
    /\ [][~(phase = "fetch" /\ ram_read(ram, pc) = CMP) => fl' = fl]_vars
C17_Witness ==
    /\ phase = "fetch" /\ Len(hist) >= 2 /\ Prev.op = CMP /\ Prev.ok
    /\ Last.op \in {ADD, MUL, PUSH, POP} /\ Last.ok /\ fl # 0

(* C18: the stack is last-in first-out. For n PUSHes followed by n POPs,    *)
(* the pushed registers holding 8-bit values, SP not wrapping past 0 and    *)
(* the stack cells apart from the executed instructions: the k-th POP       *)
(* returns what the (n-k+1)-th PUSH stored, SP ends where it started, and   *)
(* no cell outside the n cells below the starting SP changes.               *)
Depths == 1..(HistLen \div 2)
PushAt(n, k) == Len(hist) - 2 * n + k
PopAt(n, k) == Len(hist) - n + k
\* the registers and the data register as the i-th remembered instruction
\* left them
RegAfter(i) == IF i = Len(hist) THEN reg ELSE hist[i + 1].reg
MdrAfter(i) == IF i = Len(hist) THEN mdr ELSE hist[i + 1].mdr
PushesThenPops(n) ==
    /\ phase = "advance" /\ Len(hist) >= 2 * n
    /\ \A k \in 1..n :
          /\ hist[PushAt(n, k)].op = PUSH /\ hist[PushAt(n, k)].ok
          /\ hist[PopAt(n, k)].op = POP /\ hist[PopAt(n, k)].ok
          /\ hist[PushAt(n, k)].a \in RegIndices
          /\ hist[PopAt(n, k)].a \in RegIndices
          /\ hist[PushAt(n, k)].reg[hist[PushAt(n, k)].a] \in Byte
\* the stack pointer before the first PUSH, as the register holds it or as
\* the address it stands for
StartSP(n, masked) ==
    IF masked THEN hist[PushAt(n, 1)].reg[SPReg] % RamSize
    ELSE hist[PushAt(n, 1)].reg[SPReg]
NoPopOfSP(n) == \A k \in 1..n : hist[PopAt(n, k)].a # SPReg
StackCells(top, n) == (top - n)..(top - 1)
Executed(n) ==
    UNION {{hist[i].at, hist[i].at + 1} : i \in PushAt(n, 1)..Len(hist)}
Lifo(n, top) ==
    /\ \A k \in 1..n :
          RegAfter(PopAt(n, k))[hist[PopAt(n, k)].a] = MdrAfter(PushAt(n, n - k + 1))
    /\ reg[SPReg] = top
\* the k-th PUSH in a row is about to run, and the stack pointer before the
\* first of them
PushRun(k) ==
    /\ phase = "fetch" /\ ram_read(ram, pc) = PUSH /\ Len(hist) >= k - 1
    /\ \A j \in 1..(k - 1) :
          hist[Len(hist) - j + 1].op = PUSH /\ hist[Len(hist) - j + 1].ok
RunStart(k, masked) ==
    LET top == IF k = 1 THEN reg[SPReg] ELSE hist[Len(hist) - k + 2].reg[SPReg]
    IN  IF masked THEN top % RamSize ELSE top
StackFrame(top, n) ==
    \A a \in (0..(RamSize - 1)) \ StackCells(top, n) : ram'[a] = ram[a]
LifoOrder(masked) ==
    \A n \in Depths :
        (/\ PushesThenPops(n)
         /\ masked => NoPopOfSP(n)
         /\ StartSP(n, masked) - n >= 0
         /\ StackCells(StartSP(n, masked), n) \cap Executed(n) = {})
        => Lifo(n, StartSP(n, masked))
LifoFrame(masked) ==
    /\ \A k \in Depths :
          (PushRun(k) /\ RunStart(k, masked) - k >= 0)
          => StackFrame(RunStart(k, masked), k)
    /\ (phase = "fetch" /\ ram_read(ram, pc) = POP) => ram' = ram
C18_StackIsLifo == [](LifoOrder(FALSE)) /\ [][LifoFrame(FALSE)]_vars

(* C18, amended: the same with no POP naming register 7 and with the        *)
(* starting SP taken modulo 256, the address it stands for: SP ends at the  *)
(* starting SP mod 256 and the n cells are those below that address.        *)
C18_StackIsLifoMod256 == [](LifoOrder(TRUE)) /\ [][LifoFrame(TRUE)]_vars
C18_Witness ==
    /\ PushesThenPops(2) /\ NoPopOfSP(2)
    /\ StartSP(2, FALSE) = 2 * StackInit /\ reg[SPReg] = 2 * StackInit - RamSize
    /\ hist[PushAt(2, 1)].a = 0 /\ hist[PushAt(2, 2)].a = 1
    /\ hist[PopAt(2, 1)].a = 0 /\ hist[PopAt(2, 2)].a = 1
    /\ reg[0] = 9 /\ reg[1] = 200

(* C19: a run that executes no CALL, RET, JMP, JEQ or JNE terminates: PC    *)
(* grows by 1..3 on every cycle and no fetch is below an earlier one, so    *)
(* within 256 cycles the run executes HLT or stops on an unrecognized       *)
(* opcode or a fetch past address 255, and in no other way.                 *)
Straight == Len(hist) = 0 \/ Last.run >= 0
\* a step the model does not take because a value would pass MaxVal or the
\* output MaxOut
AtBound ==
    LET a == op_a(ram, pc)
        b == op_b(ram, pc)
    IN  /\ phase = "fetch"
        /\ IF Len(out) + 2 > MaxOut THEN TRUE
           ELSE IF ~(RegOK(a) /\ RegOK(b)) THEN FALSE
           ELSE IF ram_read(ram, pc) = MUL
                THEN ~FitsProduct(reg[RegIdx(a)], reg[RegIdx(b)])
           ELSE IF ram_read(ram, pc) = ADD
                THEN ~FitsSum(reg[RegIdx(a)], reg[RegIdx(b)])
           ELSE FALSE
StraightOrder(stops) ==
    Straight =>
        /\ Stopped => phase \in stops
        /\ \A i \in 1..Len(hist) : InRange(hist[i].at) /\ hist[i].at >= hist[i].run - 1
        /\ \A i \in 1..Len(hist) : hist[i].run < RamSize
        /\ \A i \in 2..Len(hist) : hist[i].at - hist[i - 1].at \in 1..3
        /\ Len(hist) >= 1 => pc >= Last.at
StraightStep ==
    Straight =>
        /\ phase = "advance" => pc' - pc \in 1..3
        /\ (phase = "fetch" /\ ram_read(ram, pc) \notin ControlFlow) => pc' = pc
        /\ (phase = "fetch" /\ ~InRange(pc)) => phase' = "exit"
StraightEnds == Stopped \/ ~Straight \/ AtBound
====
